---- MODULE Spec2Model ----
(***************************************************************************)
(* Model of the gate cinematic of rcbran/some-destroys.                    *)
(*                                                                         *)
(* A behaviour exercises one part of the program, chosen by Init:          *)
(*   "gate"   useIntroGateAnimation: scatter, scramble, ember sweep, ash   *)
(*            dissolve, completion, cleanup and remount;                   *)
(*   "hook"   useScatterText or useScrambleText: effect, cleanup, effect;  *)
(*   "order"  getRevealOrder on one length and direction.                  *)
(*                                                                         *)
(* Time is in milliseconds.  Timers (setTimeout, setInterval), the gsap    *)
(* timeline and the particle tweens carry the time left until they are     *)
(* due; Tick lets the time to the next one pass, and only when nothing is  *)
(* due.  Animation frames are untimed: a pending frame may run at any      *)
(* moment, and the emitter position it reads is an input.  Timer handles   *)
(* are named by what the timer does, and the arrays that only collect      *)
(* handles (push, indexOf, splice, forEach) are sets.                      *)
(***************************************************************************)
EXTENDS Integers, Sequences, FiniteSets, TLC

(* ------------------------------------------------------------------ *)
(* Program constants (durations in ms).                                *)
(* ------------------------------------------------------------------ *)
GLOW_RADIUS == 30
SCATTER_DURATION == 1000
SCATTER_STAGGER == 50
SCATTER_DELAY == 500
SCRAMBLE_SPEED == 30
SCRAMBLE_REVEAL_DURATION == 600
SCRAMBLE_FADE_DURATION == 600
SCRAMBLE_STAGGER == 40
PAUSE_AFTER_SCATTER == 1500
PAUSE_AFTER_SCRAMBLE == 2500
PARTICLES_PER_CHAR == 7
PARTICLE_DURATION_MIN == 600
PARTICLE_DURATION_MAX == 1000
DISSOLVE_DELAY == 150
COMPLETE_EXTRA == 1200

\* The non-breaking blank U+00A0.
NBSP == "nbsp"

\* Two of the glyphs of SCRAMBLE_CHARS; none of them is a letter of a phrase.
SCRAMBLE_CHARS == {"#", "%"}

(* ------------------------------------------------------------------ *)
(* Bounds and inputs.                                                  *)
(* ------------------------------------------------------------------ *)
\* Number of initialized mounts of the hook in one behaviour.
MaxRuns == 2
\* Layout: every unit is CharWidth px wide, both phrases start at x = 0.
CharWidth == 40
\* The emitter centre is sampled on a grid of EmberStep px.
EmberStep == 10
\* Effect runs of a text hook in one behaviour.
MaxEffects == 3
\* Lengths getRevealOrder is called on; with 'random', up to MaxShuffle.
MaxLength == 11
MaxShuffle == 3

\* The phrases the hook is run on (the hook's own are 23 and 14 characters).
Phrases1 == { <<"a", " ", "b">> }
Phrases2 == { <<"h", "i">>, <<"o", " ">> }

(* ------------------------------------------------------------------ *)
(* Helpers.                                                            *)
(* ------------------------------------------------------------------ *)
Range(s) == { s[i] : i \in DOMAIN s }
Max(S) == CHOOSE m \in S : \A x \in S : x <= m
Min(S) == CHOOSE m \in S : \A x \in S : m <= x
Abs(x) == IF x < 0 THEN -x ELSE x

\* Mutant: the blank is kept as an ordinary space.
DisplayChar_Space(c) == c
\* char === ' ' ? NBSP : char
DisplayChar(c) == IF c = " " THEN NBSP ELSE c

VARIABLES
  mode,                \* the part of the program this behaviour exercises
  text1, text2,        \* TEXT_PART_1, TEXT_PART_2 of this behaviour
  active,              \* an initialized run whose cleanup has not run yet
  runs,                \* initialized mounts so far; the current run's number
  now,                 \* ms since the current run's mount, up to the timeline's end
  chars,               \* allChars: unit -> span state (chars1 then chars2)
  finalChars2,         \* finalChars2 of the current run
  container1,          \* children of text1El that are character spans
  container2,          \* children of text2El that are character spans
  particles,           \* live ash particles (children of a text container)
  spawned,             \* unit -> particles created for it in this run
  dissolvedChars,      \* dissolvedCharsRef.current
  allCharsRef,         \* allCharsRef.current
  totalChars,          \* totalCharsRef.current
  processedCount,
  intervals,           \* the run's intervals array (handles)
  timeouts,            \* the run's timeouts array (handles)
  animationFrameId,    \* the last requested frame's handle; 0 is undefined
  pendingIntervals,    \* the host's live intervals
  pendingTimeouts,     \* the host's live timeouts
  pendingFrames,       \* the host's live animation-frame requests
  timeline,            \* the gsap timeline's events still to come
  emberX,              \* emitter centre read by the last proximity poll
  sweep,               \* the polls so far: started left of every unit, never moved left
  panelRevealed,       \* panelEl carries styles.revealed
  emberRunning,        \* the embers' animationPlayState is 'running'
  onCompleteCalls,     \* invocations of onComplete by the current run
  anchors,             \* the DOM anchors available to the effect
  guarded              \* the last effect run returned at the mount guard

gateVars == << mode, text1, text2, active, runs, now, chars, finalChars2, container1,
               container2, particles, spawned, dissolvedChars, allCharsRef,
               totalChars, processedCount, intervals, timeouts, animationFrameId,
               pendingIntervals, pendingTimeouts, pendingFrames, timeline,
               emberX, sweep, panelRevealed, emberRunning, onCompleteCalls,
               anchors, guarded >>

\* useScatterText / useScrambleText: one component using one of the hooks.
VARIABLES
  hookKind,            \* "scatter" or "scramble"
  config,              \* the hook's config, defaults applied
  containerRef,        \* containerRef.current is attached
  hContainer,          \* children of the container
  charsRef,            \* charsRef.current
  hasInitialized,      \* hasInitialized.current
  spans,               \* the effect's spans: index -> textContent
  finalChars,          \* the effect's finalChars
  revealOrder,         \* the effect's revealOrder
  hIntervals,          \* the effect's intervals array (handles)
  hTimeouts,           \* the effect's timeouts array (handles)
  hPendingIntervals,   \* the host's live intervals
  hPendingTimeouts,    \* the host's live timeouts
  hTimeline,           \* the gsap timeline's events still to come
  hLive,               \* an effect run whose cleanup has not run yet
  hEffects,            \* effect runs so far
  hLast,               \* the last thing that happened to the component
  hOnComplete,         \* invocations of config.onComplete
  hLocked,             \* the units locked to their final glyph, in order
  hNow                 \* ms since the last initialization

hookVars == << hookKind, config, containerRef, hContainer, charsRef, hasInitialized,
               spans, finalChars, revealOrder, hIntervals, hTimeouts,
               hPendingIntervals, hPendingTimeouts, hTimeline, hLive, hEffects,
               hLast, hOnComplete, hLocked, hNow >>

\* getRevealOrder on one input.
VARIABLES
  oLength,             \* length
  oDirection,          \* direction
  oDone,               \* the call has returned
  oResult              \* the array it returned

orderVars == << oLength, oDirection, oDone, oResult >>

\* useGateInput and the input of IntroGate.
VARIABLES
  value,               \* useGateInput's value state, as a sequence of characters
  unlocked,            \* useGateInput's unlocked state
  lastKey              \* the key of the last keydown on the input

inputVars == << value, unlocked, lastKey >>

vars == << gateVars, hookVars, orderVars, inputVars >>

\* useState(''), useState(false); no key pressed yet.
InputIdle ==
  /\ value = << >>
  /\ unlocked = FALSE
  /\ lastKey = "none"

(* ------------------------------------------------------------------ *)
(* Units, geometry, phases.                                            *)
(* ------------------------------------------------------------------ *)
N1 == Len(text1)
N2 == Len(text2)
Units == 1..(N1 + N2)
Units1 == 1..N1
Units2 == (N1 + 1)..(N1 + N2)
\* The source character of unit k and its 0-based index in its phrase.
SourceChar(k) == IF k <= N1 THEN text1[k] ELSE text2[k - N1]
IndexOf(k) == IF k <= N1 THEN k - 1 ELSE k - N1 - 1
PhraseOf(k) == IF k <= N1 THEN 1 ELSE 2
IsBlank(k) == SourceChar(k) = " "
NonBlank == { k \in Units : ~IsBlank(k) }

\* charRect.left + charRect.width / 2
CharCenterX(k) == IndexOf(k) * CharWidth + CharWidth \div 2

\* Emitter centres a poll may read: from left of the first unit's range to
\* right of the last unit's.
EmberPositions ==
  { EmberStep * i : i \in -1..((N1 * CharWidth + EmberStep) \div EmberStep) }

\* Lines 84-92: the spans of the scatter phrase.
chars1(P) == [i \in 1..Len(P) |-> [text |-> DisplayChar(P[i]), processed |-> FALSE,
                                   dissolved |-> FALSE, hot |-> FALSE]]
\* Lines 97-106: the spans of the scramble phrase; rnd are getRandomChar's draws.
chars2(P, rnd) == [i \in 1..Len(P) |->
                     [text |-> IF P[i] = " " THEN NBSP ELSE rnd[i], processed |-> FALSE,
                      dissolved |-> FALSE, hot |-> FALSE]]
FinalChars2(P) == [i \in 1..Len(P) |-> IF P[i] = " " THEN NBSP ELSE P[i]]

\* The master timeline: scatter tween, call(startScramble) at +=1.5, the fade
\* of chars2 at '<', the mote tween (onStart) at +=2.5.
ScatterEnd(n1) == SCATTER_DELAY + SCATTER_DURATION + (n1 - 1) * SCATTER_STAGGER
\* Mutant: the call is placed at the end of the scatter tween.
ScrambleAt_NoPause(n1) == ScatterEnd(n1)
ScrambleAt(n1) == ScatterEnd(n1) + PAUSE_AFTER_SCATTER
FadeEnd(n1, n2) == ScrambleAt(n1) + SCRAMBLE_FADE_DURATION + (n2 - 1) * SCRAMBLE_STAGGER
\* Mutant: the mote tween is placed at the end of the fade.
EmberAt_NoPause(n1, n2) == FadeEnd(n1, n2)
EmberAt(n1, n2) == FadeEnd(n1, n2) + PAUSE_AFTER_SCRAMBLE
BuildTimeline(n1, n2) ==
  << [in |-> ScatterEnd(n1), ev |-> "scatterEnd"],
     [in |-> ScrambleAt(n1), ev |-> "startScramble"],
     [in |-> FadeEnd(n1, n2), ev |-> "fadeEnd"],
     [in |-> EmberAt(n1, n2), ev |-> "emberStart"] >>

\* The controller state of section 4.6, read off the timeline's position.
Phase ==
  IF ~active THEN "Idle"
  ELSE IF onCompleteCalls > 0 THEN "Complete"
  ELSE CASE Len(timeline) = 4 -> "Scattering"
         [] Len(timeline) = 3 -> "PausedAfterScatter"
         [] Len(timeline) = 2 -> "Scrambling"
         [] Len(timeline) = 1 -> "PausedAfterScramble"
         [] OTHER -> "EmitterActive"

\* What the effect needs: panelEl, text1Ref.current, text2Ref.current,
\* moteRef.current and an element [data-ember] inside it.
AllAnchors == {"panel", "text1", "text2", "mote", "ember"}
\* The anchors at the first effect run: all of them, or one missing.
AnchorSets == { AllAnchors } \cup { AllAnchors \ {a} : a \in AllAnchors }

\* The handle of the next frame request differs from the last one's.
FreshFrameId == IF animationFrameId = 1 THEN 2 ELSE 1

(* ------------------------------------------------------------------ *)
(* Init.                                                               *)
(* ------------------------------------------------------------------ *)
\* The gate's state before any mount, on phrases P1 and P2.
GateIdle(P1, P2) ==
  /\ text1 = P1
  /\ text2 = P2
  /\ active = FALSE
  /\ runs = 0
  /\ now = 0
  /\ chars = << >>
  /\ finalChars2 = << >>
  /\ container1 = << >>
  /\ container2 = << >>
  /\ particles = {}
  /\ spawned = << >>
  /\ dissolvedChars = {}
  /\ allCharsRef = << >>
  /\ totalChars = 0
  /\ processedCount = 0
  /\ intervals = {}
  /\ timeouts = {}
  /\ animationFrameId = 0
  /\ pendingIntervals = {}
  /\ pendingTimeouts = {}
  /\ pendingFrames = {}
  /\ timeline = << >>
  /\ emberX = << >>
  /\ sweep = TRUE
  /\ panelRevealed = FALSE
  /\ emberRunning = FALSE
  /\ onCompleteCalls = 0
  /\ guarded = FALSE

(* ------------------------------------------------------------------ *)
(* useIntroGateAnimation: the effect (lines 56-353).                   *)
(* ------------------------------------------------------------------ *)
\* Mutant: the total is added to the one the ref holds.
TotalAfterMount_Added == totalChars + N1 + N2
\* Line 112: totalCharsRef.current = allChars.length
TotalAfterMount == N1 + N2

\* Mutant: the lead ember is not looked for.
AnchorsReady_NoEmber == {"panel", "text1", "text2", "mote"} \subseteq anchors
\* Lines 62-66: panelEl, text1El, text2El, moteEl and leadEmber are there.
AnchorsReady == anchors = AllAnchors

\* An effect run that returns at line 62 or 66.
MountGuarded ==
  /\ mode = "gate"
  /\ ~active
  /\ ~AnchorsReady
  /\ ~guarded
  /\ guarded' = TRUE
  /\ UNCHANGED << hookVars, orderVars, inputVars, anchors, mode, text1, text2, active, runs, now,
                  chars, finalChars2, container1, container2, particles, spawned,
                  dissolvedChars, allCharsRef, totalChars, processedCount, intervals,
                  timeouts, animationFrameId, pendingIntervals, pendingTimeouts,
                  pendingFrames, timeline, emberX, sweep, panelRevealed,
                  emberRunning, onCompleteCalls >>

\* A missing anchor becomes available (the panel state is set, a ref is
\* attached, the embers are rendered), which lets the effect run again.
AnchorAttach ==
  /\ mode = "gate"
  /\ ~active
  /\ \E a \in AllAnchors \ anchors : anchors' = anchors \cup {a}
  /\ guarded' = FALSE
  /\ UNCHANGED << hookVars, orderVars, inputVars, mode, text1, text2, active, runs, now,
                  chars, finalChars2, container1, container2, particles, spawned,
                  dissolvedChars, allCharsRef, totalChars, processedCount, intervals,
                  timeouts, animationFrameId, pendingIntervals, pendingTimeouts,
                  pendingFrames, timeline, emberX, sweep, panelRevealed,
                  emberRunning, onCompleteCalls >>

Mount ==
  /\ mode = "gate"
  /\ ~active
  /\ AnchorsReady
  /\ runs < MaxRuns
  /\ \E rnd \in [1..N2 -> SCRAMBLE_CHARS] :
       /\ chars' = chars1(text1) \o chars2(text2, rnd)
       /\ finalChars2' = FinalChars2(text2)
  /\ active' = TRUE
  /\ runs' = runs + 1
  /\ now' = 0
  /\ dissolvedChars' = {}
  /\ container1' = container1 \o [i \in 1..N1 |-> << runs + 1, i >>]
  /\ container2' = container2 \o [i \in 1..N2 |-> << runs + 1, N1 + i >>]
  /\ allCharsRef' = [k \in Units |-> << runs + 1, k >>]
  /\ totalChars' = TotalAfterMount
  /\ processedCount' = 0
  /\ spawned' = [k \in Units |-> 0]
  /\ intervals' = {}
  /\ timeouts' = {}
  /\ animationFrameId' = 0
  /\ timeline' = BuildTimeline(N1, N2)
  /\ emberX' = << >>
  /\ sweep' = TRUE
  /\ onCompleteCalls' = 0
  /\ guarded' = FALSE
  /\ UNCHANGED << hookVars, orderVars, inputVars, anchors, mode, text1, text2, particles, pendingIntervals, pendingTimeouts,
                  pendingFrames, panelRevealed, emberRunning >>


(* ------------------------------------------------------------------ *)
(* startScramble (lines 254-286).                                      *)
(* ------------------------------------------------------------------ *)
\* Mutant: spaces are not skipped.
Scrambled_All == Units2
\* The units of chars2 that get an interval: spaces are skipped.
Scrambled == { k \in Units2 : finalChars2[k - N1] # NBSP }
\* index * (SCRAMBLE_STAGGER * 1000) + SCRAMBLE_REVEAL_DURATION
RevealDelay(k) == IndexOf(k) * SCRAMBLE_STAGGER + SCRAMBLE_REVEAL_DURATION

StartScramble ==
  /\ pendingIntervals' = pendingIntervals \cup
       { [id |-> << "interval", k >>, run |-> runs, unit |-> k,
          in |-> SCRAMBLE_SPEED] : k \in Scrambled }
  /\ intervals' = intervals \cup { << "interval", k >> : k \in Scrambled }
  /\ pendingTimeouts' = pendingTimeouts \cup
       { [id |-> << "reveal", k >>, run |-> runs, in |-> RevealDelay(k),
          cb |-> "reveal", unit |-> k] : k \in Scrambled }
  /\ timeouts' = timeouts \cup { << "reveal", k >> : k \in Scrambled }

(* ------------------------------------------------------------------ *)
(* updateTextGlow (lines 194-251).                                     *)
(* ------------------------------------------------------------------ *)
\* Mutant: the threshold itself is in range.
InRange_Inclusive(k, x) == Abs(x - CharCenterX(k)) <= GLOW_RADIUS
\* distance < GLOW_RADIUS
InRange(k, x) == Abs(x - CharCenterX(k)) < GLOW_RADIUS
\* The units a poll at x claims: every unit of chars1 and of chars2 that is
\* not processed yet and is in range.
Claimed(x) == { k \in Units : ~chars[k].processed /\ InRange(k, x) }

\* A poll keeps the sweep going when it does not read a position left of the
\* previous one; the first poll must read a position left of every unit.
SweepAfter(x) ==
  IF emberX = << >>
  THEN \A k \in Units : x <= CharCenterX(k) - GLOW_RADIUS
  ELSE sweep /\ x >= emberX[1]

\* Mutant: the unit is not marked processed.
MarkClaimed_NoFlag(c) == [c EXCEPT !.hot = TRUE]
\* Lines 215-217: char.dataset.processed = 'true'; classList.add(styles.hot)
MarkClaimed(c) == [c EXCEPT !.processed = TRUE, !.hot = TRUE]

\* Mutant: the next frame is requested whatever the count.
LoopContinues_Always(count) == TRUE
\* Line 248: processedCount < allChars.length
LoopContinues(count) == count < Len(chars)

\* Mutant: the count goes up by one per poll that claims something.
CountAfter_PerPoll(cl) == processedCount + (IF cl = {} THEN 0 ELSE 1)
\* Lines 216, 237: processedCount++ for every unit claimed.
CountAfter(cl) == processedCount + Cardinality(cl)

\* One run of updateTextGlow reading emitter centre x; frames are the frame
\* requests left pending when it starts.
UpdateTextGlow(x, frames) ==
  IF processedCount >= Len(chars)
  THEN /\ pendingFrames' = frames
       /\ UNCHANGED << chars, processedCount, timeouts, pendingTimeouts,
                       animationFrameId, emberX, sweep >>
  ELSE LET cl == Claimed(x)
           count == CountAfter(cl)
       IN /\ chars' = [k \in DOMAIN chars |->
                         IF k \in cl
                         THEN MarkClaimed(chars[k])
                         ELSE chars[k]]
          /\ processedCount' = count
          /\ pendingTimeouts' = pendingTimeouts \cup
               { [id |-> << "dissolve", k >>, run |-> runs, in |-> DISSOLVE_DELAY,
                  cb |-> "dissolve", unit |-> k] : k \in cl }
          /\ timeouts' = timeouts \cup { << "dissolve", k >> : k \in cl }
          /\ IF LoopContinues(count)
             THEN /\ animationFrameId' = FreshFrameId
                  /\ pendingFrames' = frames \cup
                       { [id |-> FreshFrameId, run |-> runs] }
             ELSE /\ animationFrameId' = animationFrameId
                  /\ pendingFrames' = frames
          /\ emberX' = << x >>
          /\ sweep' = SweepAfter(x)

(* ------------------------------------------------------------------ *)
(* The timeline's events (lines 288-353).                              *)
(* ------------------------------------------------------------------ *)
TimelineDue == timeline # << >> /\ Head(timeline).in = 0

\* The scatter tween of chars1 ends.
ScatterDone ==
  /\ TimelineDue /\ Head(timeline).ev = "scatterEnd"
  /\ timeline' = Tail(timeline)
  /\ UNCHANGED << hookVars, orderVars, inputVars, anchors, guarded, mode, text1, text2, active, runs, now, chars, finalChars2, container1,
                  container2, particles, spawned, dissolvedChars, allCharsRef,
                  totalChars, processedCount, intervals, timeouts, animationFrameId,
                  pendingIntervals, pendingTimeouts, pendingFrames,
                  emberX, sweep, panelRevealed, emberRunning, onCompleteCalls >>

\* timeline.call(() => startScramble(), [], '+=1.5')
ScrambleStart ==
  /\ TimelineDue /\ Head(timeline).ev = "startScramble"
  /\ timeline' = Tail(timeline)
  /\ StartScramble
  /\ UNCHANGED << hookVars, orderVars, inputVars, anchors, guarded, mode, text1, text2, active, runs, now, chars, finalChars2, container1,
                  container2, particles, spawned, dissolvedChars, allCharsRef,
                  totalChars, processedCount, animationFrameId, pendingFrames,
                  emberX, sweep, panelRevealed, emberRunning, onCompleteCalls >>

\* The fade-in tween of chars2 ends.
FadeDone ==
  /\ TimelineDue /\ Head(timeline).ev = "fadeEnd"
  /\ timeline' = Tail(timeline)
  /\ UNCHANGED << hookVars, orderVars, inputVars, anchors, guarded, mode, text1, text2, active, runs, now, chars, finalChars2, container1,
                  container2, particles, spawned, dissolvedChars, allCharsRef,
                  totalChars, processedCount, intervals, timeouts, animationFrameId,
                  pendingIntervals, pendingTimeouts, pendingFrames,
                  emberX, sweep, panelRevealed, emberRunning, onCompleteCalls >>

\* onStart of the mote tween: reveal the panel, run the embers, first poll.
EmberStart ==
  /\ TimelineDue /\ Head(timeline).ev = "emberStart"
  /\ timeline' = Tail(timeline)
  /\ panelRevealed' = TRUE
  /\ emberRunning' = TRUE
  /\ \E x \in EmberPositions : UpdateTextGlow(x, pendingFrames)
  /\ UNCHANGED << hookVars, orderVars, inputVars, anchors, guarded, mode, text1, text2, active, runs, now, finalChars2, container1,
                  container2, particles, spawned, dissolvedChars, allCharsRef,
                  totalChars, intervals, pendingIntervals, onCompleteCalls >>

\* A requested animation frame runs updateTextGlow.
Frame ==
  \E f \in pendingFrames :
    /\ f.run = runs
    /\ \E x \in EmberPositions : UpdateTextGlow(x, pendingFrames \ {f})
    /\ UNCHANGED << hookVars, orderVars, inputVars, anchors, guarded, mode, text1, text2, active, runs, now, finalChars2, container1,
                    container2, particles, spawned, dissolvedChars, allCharsRef,
                    totalChars, intervals, pendingIntervals, timeline,
                    panelRevealed, emberRunning, onCompleteCalls >>

(* ------------------------------------------------------------------ *)
(* dissolveChar (lines 118-188), as the values it leaves.              *)
(* ------------------------------------------------------------------ *)
\* Mutant: no guard against a second call.
Dissolves_Always(k) == TRUE
\* Lines 120-121: the call is not skipped.
Dissolves(k) == << runs, k >> \notin dissolvedChars /\ ~chars[k].dissolved

DissolvedAfter(k) ==
  IF Dissolves(k) THEN dissolvedChars \cup { << runs, k >> } ELSE dissolvedChars
CharsAfterDissolve(k) ==
  IF Dissolves(k) THEN [chars EXCEPT ![k].dissolved = TRUE] ELSE chars
\* Lines 129-162: PARTICLES_PER_CHAR particles appended to the unit's container.
\* The particles of one unit are kept as a batch: in is the time left of the
\* longest duration a particle can draw.
NewParticles(k) ==
  { [unit |-> k, in |-> PARTICLE_DURATION_MAX, n |-> PARTICLES_PER_CHAR] }
\* Mutant: the completion delay is shorter than a particle's life.
CompleteDelay_Short == PARTICLE_DURATION_MAX - PARTICLE_DURATION_MIN
\* Line 185: PARTICLE_DURATION_MAX * 1000 + 1200
CompleteDelay == PARTICLE_DURATION_MAX + COMPLETE_EXTRA
ParticlesAfterDissolve(k) ==
  IF Dissolves(k) THEN particles \cup NewParticles(k) ELSE particles
SpawnedAfterDissolve(k) ==
  IF Dissolves(k) THEN [spawned EXCEPT ![k] = @ + PARTICLES_PER_CHAR] ELSE spawned
\* Mutant: any dissolve schedules the completion timeout.
CompletesOnDissolve_Any(k) == Dissolves(k)
\* Line 173: the call schedules the completion timeout.
CompletesOnDissolve(k) ==
  Dissolves(k) /\ Cardinality(DissolvedAfter(k)) >= totalChars

(* ------------------------------------------------------------------ *)
(* Timers of the host.                                                 *)
(* ------------------------------------------------------------------ *)
\* A timeout of the current run's closure is due.
Fireable(t) == t \in pendingTimeouts /\ t.in = 0 /\ t.run = runs

\* Lines 262-264: an interval of startScramble ticks.
IntervalTick ==
  \E i \in pendingIntervals :
    /\ i.in = 0 /\ i.run = runs
    /\ \E g \in SCRAMBLE_CHARS : chars' = [chars EXCEPT ![i.unit].text = g]
    /\ pendingIntervals' = (pendingIntervals \ {i})
                             \cup { [i EXCEPT !.in = SCRAMBLE_SPEED] }
    /\ UNCHANGED << hookVars, orderVars, inputVars, anchors, guarded, mode, text1, text2, active, runs, now, finalChars2, container1,
                    container2, particles, spawned, dissolvedChars, allCharsRef,
                    totalChars, processedCount, intervals, timeouts,
                    animationFrameId, pendingTimeouts, pendingFrames, timeline,
                    emberX, sweep, panelRevealed, emberRunning, onCompleteCalls >>

\* Mutant: the interval is left running.
ClearInterval_Kept(k) == pendingIntervals
\* Line 272: window.clearInterval(intervalId)
ClearInterval(k) == { i \in pendingIntervals : i.id # << "interval", k >> }

\* Lines 269-283: the reveal timeout of a unit of chars2.
RevealTimeout ==
  \E t \in pendingTimeouts :
    /\ Fireable(t) /\ t.cb = "reveal"
    /\ IF << "interval", t.unit >> \in intervals
       THEN /\ pendingIntervals' = ClearInterval(t.unit)
            /\ intervals' = intervals \ { << "interval", t.unit >> }
       ELSE UNCHANGED << pendingIntervals, intervals >>
    /\ chars' = [chars EXCEPT ![t.unit].text = finalChars2[t.unit - N1]]
    /\ pendingTimeouts' = pendingTimeouts \ {t}
    /\ UNCHANGED << hookVars, orderVars, inputVars, anchors, guarded, mode, text1, text2, active, runs, now, finalChars2, container1,
                    container2, particles, spawned, dissolvedChars, allCharsRef,
                    totalChars, processedCount, timeouts, animationFrameId,
                    pendingFrames, timeline, emberX, sweep, panelRevealed,
                    emberRunning, onCompleteCalls >>

\* Lines 219-221 and 240-242: the dissolve timeout of a claimed unit.
DissolveTimeout ==
  \E t \in pendingTimeouts :
    /\ Fireable(t) /\ t.cb = "dissolve"
    /\ particles' = ParticlesAfterDissolve(t.unit)
    /\ dissolvedChars' = DissolvedAfter(t.unit)
    /\ chars' = CharsAfterDissolve(t.unit)
    /\ spawned' = SpawnedAfterDissolve(t.unit)
    /\ IF CompletesOnDissolve(t.unit)
       THEN /\ pendingTimeouts' = (pendingTimeouts \ {t}) \cup
                 { [id |-> << "complete", 0 >>, run |-> runs,
                    in |-> CompleteDelay,
                    cb |-> "complete", unit |-> 0] }
            /\ timeouts' = timeouts \cup { << "complete", 0 >> }
       ELSE /\ pendingTimeouts' = pendingTimeouts \ {t}
            /\ timeouts' = timeouts
    /\ UNCHANGED << hookVars, orderVars, inputVars, anchors, guarded, mode, text1, text2, active, runs, now, finalChars2, container1,
                    container2, allCharsRef, totalChars, processedCount, intervals,
                    animationFrameId, pendingIntervals, pendingFrames, timeline,
                    emberX, sweep, panelRevealed, emberRunning, onCompleteCalls >>

\* Lines 183-185: the completion timeout invokes onComplete.
\* Mutant: the timer repeats, as one made by setInterval would.
AfterTimeout_Repeats(t) == (pendingTimeouts \ {t}) \cup { [t EXCEPT !.in = CompleteDelay] }
\* Line 183: window.setTimeout runs its callback once.
AfterTimeout(t) == pendingTimeouts \ {t}
CompleteTimeout ==
  \E t \in pendingTimeouts :
    /\ Fireable(t) /\ t.cb = "complete"
    /\ onCompleteCalls' = onCompleteCalls + 1
    /\ pendingTimeouts' = AfterTimeout(t)
    /\ UNCHANGED << hookVars, orderVars, inputVars, anchors, guarded, mode, text1, text2, active, runs, now, chars, finalChars2, container1,
                    container2, particles, spawned, dissolvedChars, allCharsRef,
                    totalChars, processedCount, intervals, timeouts,
                    animationFrameId, pendingIntervals, pendingFrames, timeline,
                    emberX, sweep, panelRevealed, emberRunning >>

\* Lines 143-160: a particle's tween completes after a duration drawn between
\* PARTICLE_DURATION_MIN and PARTICLE_DURATION_MAX and the particle removes
\* itself.
ParticleDone ==
  \E p \in particles :
    /\ p.in <= PARTICLE_DURATION_MAX - PARTICLE_DURATION_MIN
    /\ particles' = particles \ {p}
    /\ UNCHANGED << hookVars, orderVars, inputVars, anchors, guarded, mode, text1, text2, active, runs, now, chars, finalChars2, container1,
                    container2, spawned, dissolvedChars, allCharsRef,
                    totalChars, processedCount, intervals, timeouts,
                    animationFrameId, pendingIntervals, pendingTimeouts,
                    pendingFrames, timeline, emberX, sweep, panelRevealed,
                    emberRunning, onCompleteCalls >>

\* Time passes until the next timer, timeline event or particle tween is
\* due, and only when none is due.
Waits ==
  { t.in : t \in pendingTimeouts } \cup { i.in : i \in pendingIntervals }
    \cup { p.in : p \in particles }
    \cup (IF timeline = << >> THEN {} ELSE { Head(timeline).in })
Elapse(S, d) == { [t EXCEPT !.in = t.in - d] : t \in S }
Tick ==
  /\ Waits # {}
  /\ \A d \in Waits : d > 0
  /\ LET d == Min(Waits)
     IN /\ pendingTimeouts' = Elapse(pendingTimeouts, d)
        /\ pendingIntervals' = Elapse(pendingIntervals, d)
        /\ particles' = Elapse(particles, d)
        /\ timeline' = [i \in DOMAIN timeline |->
                          [timeline[i] EXCEPT !.in = timeline[i].in - d]]
        /\ now' = IF timeline = << >> THEN now ELSE now + d
  /\ UNCHANGED << hookVars, orderVars, inputVars, anchors, guarded, mode, text1, text2, active, runs, chars, finalChars2, container1,
                  container2, spawned, dissolvedChars, allCharsRef,
                  totalChars, processedCount, intervals, timeouts,
                  animationFrameId, pendingFrames, emberX, sweep, panelRevealed,
                  emberRunning, onCompleteCalls >>

(* ------------------------------------------------------------------ *)
(* The effect's cleanup (lines 356-385).                               *)
(* ------------------------------------------------------------------ *)
\* Mutant: the intervals are left running.
ClearIntervals_Kept == pendingIntervals
\* intervals.forEach((id) => window.clearInterval(id))
ClearIntervals == { i \in pendingIntervals : i.id \notin intervals }
\* Mutant: the frame request is left pending.
CancelFrame_Kept == pendingFrames
\* if (animationFrameId !== undefined) cancelAnimationFrame(animationFrameId)
CancelFrame ==
  IF animationFrameId # 0
  THEN { f \in pendingFrames : f.id # animationFrameId }
  ELSE pendingFrames
\* Mutant: the timeouts are left running.
ClearTimeouts_Kept == pendingTimeouts
\* timeouts.forEach((id) => window.clearTimeout(id))
ClearTimeouts == { t \in pendingTimeouts : t.id \notin timeouts }
\* Mutant: the children are left in place.
ClearContainer_Kept(children) == children
\* textEl.innerHTML = ''
ClearContainer(children) == << >>
Unmount ==
  /\ active
  /\ active' = FALSE
  /\ timeline' = << >>
  /\ pendingIntervals' = ClearIntervals
  /\ pendingTimeouts' = ClearTimeouts
  /\ pendingFrames' = CancelFrame
  /\ chars' = [k \in DOMAIN chars |-> [chars[k] EXCEPT !.hot = FALSE]]
  /\ container1' = ClearContainer(container1)
  /\ container2' = ClearContainer(container2)
  /\ particles' = {}
  /\ dissolvedChars' = {}
  /\ allCharsRef' = << >>
  /\ UNCHANGED << hookVars, orderVars, inputVars, anchors, guarded, mode, text1, text2, runs, now, finalChars2, spawned, totalChars,
                  processedCount, intervals, timeouts, animationFrameId,
                  emberX, sweep, panelRevealed, emberRunning, onCompleteCalls >>

(* ------------------------------------------------------------------ *)
(* getRevealOrder (useScrambleText.ts lines 60-81).                    *)
(* ------------------------------------------------------------------ *)
Directions == {"left", "right", "random", "center", "undefined"}

\* Array.from({ length }, (_, i) => i)
Indices(length) == [i \in 1..length |-> i - 1]
\* Mutant: the array is returned as it is.
Reverse_Not(seq) == seq
\* indices.reverse()
Reverse(seq) == [i \in 1..Len(seq) |-> seq[Len(seq) + 1 - i]]
\* What indices.sort(() => Math.random() - 0.5) can leave: any order.
Orders(length) ==
  { f \in [1..length -> 0..(length - 1)] :
      \A i, j \in 1..length : i # j => f[i] # f[j] }
Shuffles(length, direction) ==
  IF direction = "random" THEN Orders(length) ELSE { Indices(length) }

\* Mutant: the lower index is pushed before the upper one.
RECURSIVE CenterLoop_LowerFirst(_, _, _, _)
CenterLoop_LowerFirst(length, center, i, result) ==
  IF i > center THEN result
  ELSE LET r1 == IF center - i >= 0 THEN Append(result, center - i) ELSE result
           r2 == IF center + i < length /\ center - i # center + i
                 THEN Append(r1, center + i) ELSE r1
       IN CenterLoop_LowerFirst(length, center, i + 1, r2)
\* The loop of case 'center', from iteration i with result so far.
RECURSIVE CenterLoop(_, _, _, _)
CenterLoop(length, center, i, result) ==
  IF i > center THEN result
  ELSE LET r1 == IF center + i < length THEN Append(result, center + i) ELSE result
           r2 == IF center - i >= 0 /\ center - i # center + i
                 THEN Append(r1, center - i) ELSE r1
       IN CenterLoop(length, center, i + 1, r2)

\* Mutant: the loop of case 'center' starts at i = 1.
getRevealOrder_SkipCenter(length, direction, shuffle) ==
  CASE direction = "right" -> Reverse(Indices(length))
    [] direction = "random" -> shuffle
    [] direction = "center" -> CenterLoop(length, length \div 2, 1, << >>)
    [] OTHER -> Indices(length)
\* shuffle is the order the random sort leaves.
getRevealOrder(length, direction, shuffle) ==
  CASE direction = "right" -> Reverse(Indices(length))
    [] direction = "random" -> shuffle
    [] direction = "center" -> CenterLoop(length, length \div 2, 0, << >>)
    [] OTHER -> Indices(length)

OrderIdle ==
  /\ oLength = 0
  /\ oDirection = "left"
  /\ oDone = FALSE
  /\ oResult = << >>

GetRevealOrder ==
  /\ mode = "order"
  /\ ~oDone
  /\ oDone' = TRUE
  /\ \E shuffle \in Shuffles(oLength, oDirection) :
       oResult' = getRevealOrder(oLength, oDirection, shuffle)
  /\ UNCHANGED << gateVars, hookVars, inputVars, oLength, oDirection >>

(* ------------------------------------------------------------------ *)
(* useScatterText and useScrambleText.                                 *)
(* ------------------------------------------------------------------ *)
\* Defaults of useScrambleText (ms) and of useScatterText.
SCRAMBLE_DEFAULT_DELAY == 500
SCRAMBLE_DEFAULT_DURATION == 800
SCRAMBLE_DEFAULT_STAGGER == 50
SCRAMBLE_DEFAULT_SPEED == 30
SCATTER_DEFAULT_DELAY == 750
SCATTER_DEFAULT_DURATION == 1000
SCATTER_DEFAULT_STAGGER == 60
\* CHAR_SETS.binary
BinaryChars == {"0", "1"}

HookTexts == { <<"x">>, <<"h", "i">>, <<"a", " ", "b">> }
ScrambleConfigs ==
  { [text |-> t, enabled |-> e, delay |-> d,
     duration |-> SCRAMBLE_DEFAULT_DURATION, stagger |-> SCRAMBLE_DEFAULT_STAGGER,
     scrambleSpeed |-> SCRAMBLE_DEFAULT_SPEED, revealDirection |-> dir]
      : t \in HookTexts, e \in BOOLEAN, d \in {0, SCRAMBLE_DEFAULT_DELAY},
        dir \in Directions \ {"undefined"} }
ScatterConfigs ==
  { [text |-> t, enabled |-> e, delay |-> SCATTER_DEFAULT_DELAY,
     duration |-> SCATTER_DEFAULT_DURATION, stagger |-> SCATTER_DEFAULT_STAGGER,
     scrambleSpeed |-> 0, revealDirection |-> "left"]
      : t \in HookTexts, e \in BOOLEAN }

HookIdle ==
  /\ hookKind = "scatter"
  /\ config \in { c \in ScatterConfigs : c.text = <<"h", "i">> /\ c.enabled }
  /\ containerRef = FALSE
  /\ hContainer = << >>
  /\ charsRef = << >>
  /\ hasInitialized = FALSE
  /\ spans = << >>
  /\ finalChars = << >>
  /\ revealOrder = << >>
  /\ hIntervals = {}
  /\ hTimeouts = {}
  /\ hPendingIntervals = {}
  /\ hPendingTimeouts = {}
  /\ hTimeline = << >>
  /\ hLive = FALSE
  /\ hEffects = 0
  /\ hLast = "none"
  /\ hOnComplete = 0
  /\ hLocked = << >>
  /\ hNow = 0

InitHook ==
  /\ mode = "hook"
  /\ \/ hookKind = "scatter" /\ config \in ScatterConfigs
     \/ hookKind = "scramble" /\ config \in ScrambleConfigs
  /\ containerRef \in BOOLEAN
  /\ hContainer = << >>
  /\ charsRef = << >>
  /\ hasInitialized = FALSE
  /\ spans = << >>
  /\ finalChars = << >>
  /\ revealOrder = << >>
  /\ hIntervals = {}
  /\ hTimeouts = {}
  /\ hPendingIntervals = {}
  /\ hPendingTimeouts = {}
  /\ hTimeline = << >>
  /\ hLive = FALSE
  /\ hEffects = 0
  /\ hLast = "none"
  /\ hOnComplete = 0
  /\ hLocked = << >>
  /\ hNow = 0
  /\ GateIdle(<< >>, << >>)
  /\ anchors = AllAnchors
  /\ InputIdle
  /\ OrderIdle

\* The container element gets attached.
Attach ==
  /\ mode = "hook"
  /\ ~containerRef
  /\ ~hLive
  /\ containerRef' = TRUE
  /\ hLast' = "attach"
  /\ UNCHANGED << gateVars, orderVars, inputVars, hookKind, config, hContainer, charsRef,
                  hasInitialized, spans, finalChars, revealOrder, hIntervals,
                  hTimeouts, hPendingIntervals, hPendingTimeouts, hTimeline, hLive,
                  hEffects, hOnComplete, hLocked, hNow >>

\* The children an effect run appends: one span per character.
NewSpans(text, run) == [i \in 1..Len(text) |-> << run, i - 1 >>]

\* Mutant: the container is not tested.
ScatterReturnsEarly_NoRef == ~config.enabled \/ hasInitialized
\* useScatterText.ts lines 57-63: the effect's early returns.
ScatterReturnsEarly == ~config.enabled \/ ~containerRef \/ hasInitialized

\* useScatterText.ts lines 56-95: the effect.
ScatterEffect ==
  /\ mode = "hook" /\ hookKind = "scatter"
  /\ ~hLive
  /\ hEffects < MaxEffects
  /\ hEffects' = hEffects + 1
  /\ hLast' = "effect"
  /\ IF ScatterReturnsEarly
     THEN UNCHANGED << hContainer, charsRef, hasInitialized, spans, hTimeline,
                       hLive, hOnComplete, hNow >>
     ELSE /\ hasInitialized' = TRUE
          /\ hContainer' = NewSpans(config.text, hEffects + 1)
          /\ charsRef' = NewSpans(config.text, hEffects + 1)
          /\ spans' = [i \in 1..Len(config.text) |-> DisplayChar(config.text[i])]
          /\ hTimeline' = << [in |-> config.delay + config.duration
                                     + (Len(config.text) - 1) * config.stagger,
                              ev |-> "complete", unit |-> 0] >>
          /\ hLive' = TRUE
          /\ hOnComplete' = 0
          /\ hNow' = 0
  /\ UNCHANGED << gateVars, orderVars, inputVars, hookKind, config, containerRef, finalChars,
                  revealOrder, hIntervals, hTimeouts, hPendingIntervals,
                  hPendingTimeouts, hLocked >>

\* useScatterText.ts lines 97-106: the cleanup.
ScatterCleanup ==
  /\ hookKind = "scatter"
  /\ hLive
  /\ hLive' = FALSE
  /\ hLast' = "cleanup"
  /\ hTimeline' = << >>
  /\ hContainer' = << >>
  /\ charsRef' = << >>
  /\ UNCHANGED << gateVars, orderVars, inputVars, hookKind, config, containerRef,
                  hasInitialized, spans, finalChars, revealOrder, hIntervals,
                  hTimeouts, hPendingIntervals, hPendingTimeouts, hEffects,
                  hOnComplete, hLocked, hNow >>

\* useScrambleText.ts lines 145-187: the timeline.  The calls sit at the
\* absolute positions orderIndex * stagger; the closing tween is appended
\* at the end of the timeline so far.
CallAt(orderIndex) == orderIndex * config.stagger
ScrambleEnd(n) ==
  Max({ config.delay, CallAt(n - 1) }) + (n - 1) * config.stagger + config.duration
BuildScrambleTimeline(order, final) ==
  [oi \in 1..Len(order) |->
     [in |-> CallAt(oi - 1),
      ev |-> IF final[order[oi] + 1] = NBSP THEN "blank" ELSE "scramble",
      unit |-> order[oi]]]
    \o << [in |-> ScrambleEnd(Len(order)), ev |-> "complete", unit |-> 0] >>

\* useScrambleText.ts lines 104-187: the effect.
ScrambleEffect ==
  /\ mode = "hook" /\ hookKind = "scramble"
  /\ ~hLive
  /\ hEffects < MaxEffects
  /\ hEffects' = hEffects + 1
  /\ hLast' = "effect"
  /\ IF ~config.enabled \/ ~containerRef \/ hasInitialized
     THEN UNCHANGED << hContainer, charsRef, hasInitialized, spans, finalChars,
                       revealOrder, hIntervals, hTimeouts, hTimeline, hLive,
                       hOnComplete, hLocked, hNow >>
     ELSE LET n == Len(config.text)
              final == [i \in 1..n |-> DisplayChar(config.text[i])]
          IN /\ hasInitialized' = TRUE
             /\ hContainer' = NewSpans(config.text, hEffects + 1)
             /\ charsRef' = NewSpans(config.text, hEffects + 1)
             /\ \E rnd \in [1..n -> BinaryChars] :
                  spans' = [i \in 1..n |->
                              IF config.text[i] = " " THEN NBSP ELSE rnd[i]]
             /\ finalChars' = final
             /\ \E shuffle \in Shuffles(n, config.revealDirection) :
                  LET order == getRevealOrder(n, config.revealDirection, shuffle)
                  IN /\ revealOrder' = order
                     /\ hTimeline' = BuildScrambleTimeline(order, final)
             /\ hIntervals' = {}
             /\ hTimeouts' = {}
             /\ hLive' = TRUE
             /\ hOnComplete' = 0
             /\ hLocked' = << >>
             /\ hNow' = 0
  /\ UNCHANGED << gateVars, orderVars, inputVars, hookKind, config, containerRef,
                  hPendingIntervals, hPendingTimeouts >>

HTimelineDue == hTimeline # << >> /\ Head(hTimeline).in = 0

\* Lines 159-161: the call that sets a blank unit.
BlankCall ==
  /\ HTimelineDue /\ Head(hTimeline).ev = "blank"
  /\ hTimeline' = Tail(hTimeline)
  /\ spans' = [spans EXCEPT ![Head(hTimeline).unit + 1] = NBSP]
  /\ UNCHANGED << gateVars, orderVars, inputVars, hookKind, config, containerRef, hContainer,
                  charsRef, hasInitialized, finalChars, revealOrder, hIntervals,
                  hTimeouts, hPendingIntervals, hPendingTimeouts, hLive, hEffects,
                  hLast, hOnComplete, hLocked, hNow >>

\* Lines 166-182: the call that starts a unit's scrambling.
ScrambleCall ==
  /\ HTimelineDue /\ Head(hTimeline).ev = "scramble"
  /\ hTimeline' = Tail(hTimeline)
  /\ LET u == Head(hTimeline).unit
     IN /\ hPendingIntervals' = hPendingIntervals \cup
             { [id |-> << "interval", u >>, unit |-> u, in |-> config.scrambleSpeed] }
        /\ hIntervals' = hIntervals \cup { << "interval", u >> }
        /\ hPendingTimeouts' = hPendingTimeouts \cup
             { [id |-> << "reveal", u >>, unit |-> u, in |-> config.duration] }
        /\ hTimeouts' = hTimeouts \cup { << "reveal", u >> }
  /\ UNCHANGED << gateVars, orderVars, inputVars, hookKind, config, containerRef, hContainer,
                  charsRef, hasInitialized, spans, finalChars, revealOrder, hLive,
                  hEffects, hLast, hOnComplete, hLocked, hNow >>

\* Lines 167-169: a unit's interval ticks.
ScrambleInterval ==
  \E i \in hPendingIntervals :
    /\ i.in = 0
    /\ \E g \in BinaryChars : spans' = [spans EXCEPT ![i.unit + 1] = g]
    /\ hPendingIntervals' = (hPendingIntervals \ {i})
                              \cup { [i EXCEPT !.in = config.scrambleSpeed] }
    /\ UNCHANGED << gateVars, orderVars, inputVars, hookKind, config, containerRef, hContainer,
                    charsRef, hasInitialized, finalChars, revealOrder, hIntervals,
                    hTimeouts, hPendingTimeouts, hTimeline, hLive, hEffects, hLast,
                    hOnComplete, hLocked, hNow >>

\* Lines 173-180: a unit's timeout stops its interval and reveals it.
ScrambleReveal ==
  \E t \in hPendingTimeouts :
    /\ t.in = 0
    /\ IF << "interval", t.unit >> \in hIntervals
       THEN /\ hPendingIntervals' =
                 { i \in hPendingIntervals : i.id # << "interval", t.unit >> }
            /\ hIntervals' = hIntervals \ { << "interval", t.unit >> }
       ELSE UNCHANGED << hPendingIntervals, hIntervals >>
    /\ spans' = [spans EXCEPT ![t.unit + 1] = finalChars[t.unit + 1]]
    /\ hLocked' = Append(hLocked, t.unit)
    /\ hPendingTimeouts' = hPendingTimeouts \ {t}
    /\ UNCHANGED << gateVars, orderVars, inputVars, hookKind, config, containerRef, hContainer,
                    charsRef, hasInitialized, finalChars, revealOrder, hTimeouts,
                    hTimeline, hLive, hEffects, hLast, hOnComplete, hNow >>

\* gsap.timeline({ onComplete }): the timeline of either hook ends.
TimelineComplete ==
  /\ HTimelineDue /\ Head(hTimeline).ev = "complete"
  /\ hTimeline' = Tail(hTimeline)
  /\ hOnComplete' = hOnComplete + 1
  /\ UNCHANGED << gateVars, orderVars, inputVars, hookKind, config, containerRef, hContainer,
                  charsRef, hasInitialized, spans, finalChars, revealOrder,
                  hIntervals, hTimeouts, hPendingIntervals, hPendingTimeouts, hLive,
                  hEffects, hLast, hLocked, hNow >>

\* useScrambleText.ts lines 189-202: the cleanup.
ScrambleCleanup ==
  /\ hookKind = "scramble"
  /\ hLive
  /\ hLive' = FALSE
  /\ hLast' = "cleanup"
  /\ hTimeline' = << >>
  /\ hPendingIntervals' = { i \in hPendingIntervals : i.id \notin hIntervals }
  /\ hPendingTimeouts' = { t \in hPendingTimeouts : t.id \notin hTimeouts }
  /\ hContainer' = << >>
  /\ charsRef' = << >>
  /\ UNCHANGED << gateVars, orderVars, inputVars, hookKind, config, containerRef,
                  hasInitialized, spans, finalChars, revealOrder, hIntervals,
                  hTimeouts, hEffects, hOnComplete, hLocked, hNow >>

HWaits ==
  { t.in : t \in hPendingTimeouts } \cup { i.in : i \in hPendingIntervals }
    \cup (IF hTimeline = << >> THEN {} ELSE { Head(hTimeline).in })
HookTick ==
  /\ HWaits # {}
  /\ \A d \in HWaits : d > 0
  /\ LET d == Min(HWaits)
     IN /\ hPendingTimeouts' = Elapse(hPendingTimeouts, d)
        /\ hPendingIntervals' = Elapse(hPendingIntervals, d)
        /\ hTimeline' = [i \in DOMAIN hTimeline |->
                           [hTimeline[i] EXCEPT !.in = hTimeline[i].in - d]]
        /\ hNow' = hNow + d
  /\ UNCHANGED << gateVars, orderVars, inputVars, hookKind, config, containerRef, hContainer,
                  charsRef, hasInitialized, spans, finalChars, revealOrder,
                  hIntervals, hTimeouts, hLive, hEffects, hLast, hOnComplete,
                  hLocked >>

(* ------------------------------------------------------------------ *)
(* useGateInput (useScatterText.ts lines 119-142), the input of        *)
(* IntroGate (IntroGate.tsx lines 295-311), Experience.tsx line 18.    *)
(* ------------------------------------------------------------------ *)
\* const TARGET = 'some destroys'
TARGET == << "s", "o", "m", "e", " ", "d", "e", "s", "t", "r", "o", "y", "s" >>

\* What the user may have typed into the input.
InputValues ==
  { << >>,
    TARGET,
    << " ", "S", "o", "m", "e", " ", "D", "e", "s", "t", "r", "o", "y", "s", " " >>,
    << "S", "O", "M", "E", " ", "D", "E", "S", "T", "R", "O", "Y", "S", "\t" >>,
    << "s", "o", "m", "e", " ", "d", "e", "s", "t", "r", "o", "y" >>,
    << "s", "o", "m", "e", " ", " ", "d", "e", "s", "t", "r", "o", "y", "s" >>,
    << "s", "o", "m", "e", " ", "d", "e", "s", "t", "r", "o", "y", "s", "." >>,
    << "s", "o", "m", "e", "d", "e", "s", "t", "r", "o", "y", "s" >> }
Keys == {"Enter", "a", "Escape"}

\* String.prototype.trim: white space is removed from both ends.
WhiteSpace == {" ", "\t", "\n"}
RECURSIVE TrimStart(_)
TrimStart(v) ==
  IF v # << >> /\ Head(v) \in WhiteSpace THEN TrimStart(Tail(v)) ELSE v
RECURSIVE TrimEnd(_)
TrimEnd(v) ==
  IF v # << >> /\ v[Len(v)] \in WhiteSpace
  THEN TrimEnd(SubSeq(v, 1, Len(v) - 1)) ELSE v
Trim(v) == TrimEnd(TrimStart(v))
\* String.prototype.toLowerCase on the letters of the inputs.
LowerChar(c) ==
  CASE c = "S" -> "s" [] c = "O" -> "o" [] c = "M" -> "m" [] c = "E" -> "e"
    [] c = "D" -> "d" [] c = "T" -> "t" [] c = "R" -> "r" [] c = "Y" -> "y"
    [] OTHER -> c
ToLowerCase(v) == [i \in DOMAIN v |-> LowerChar(v[i])]

\* Mutant: the value is not compared.
Matches_Any(v) == TRUE
\* value.trim().toLowerCase() === TARGET
Matches(v) == ToLowerCase(Trim(v)) = TARGET

\* Experience.tsx line 18: gate.unlocked ? <MainScene /> : <IntroGate ... />
Scene == IF unlocked THEN "MainScene" ELSE "IntroGate"

InitInput ==
  /\ mode = "input"
  /\ InputIdle
  /\ GateIdle(<< >>, << >>)
  /\ anchors = AllAnchors
  /\ HookIdle
  /\ OrderIdle

\* handleChange: setValue(event.target.value)
HandleChange ==
  /\ mode = "input"
  /\ Scene = "IntroGate"
  /\ \E v \in InputValues : v # value /\ value' = v
  /\ UNCHANGED << gateVars, hookVars, orderVars, unlocked, lastKey >>

\* handleUnlock (useGateInput): the state of unlocked it leaves.
HandleUnlock == IF Matches(value) THEN TRUE ELSE unlocked

\* handleKeyDown: Enter with a matching value calls onUnlock.
HandleKeyDown ==
  /\ mode = "input"
  /\ Scene = "IntroGate"
  /\ \E key \in Keys :
       /\ lastKey' = key
       /\ unlocked' = IF key = "Enter" /\ Matches(value)
                       THEN HandleUnlock ELSE unlocked
  /\ UNCHANGED << gateVars, hookVars, orderVars, value >>

(* ------------------------------------------------------------------ *)
(* The specification.                                                  *)
(* ------------------------------------------------------------------ *)
InitGate ==
  /\ mode = "gate"
  /\ \E P1 \in Phrases1, P2 \in Phrases2 : GateIdle(P1, P2)
  /\ anchors \in AnchorSets
  /\ InputIdle
  /\ HookIdle
  /\ OrderIdle

InitOrder ==
  /\ mode = "order"
  /\ oDirection \in Directions
  /\ oLength \in 0..(IF oDirection = "random" THEN MaxShuffle ELSE MaxLength)
  /\ oDone = FALSE
  /\ oResult = << >>
  /\ GateIdle(<< >>, << >>)
  /\ anchors = AllAnchors
  /\ InputIdle
  /\ HookIdle

Init == InitGate \/ InitHook \/ InitOrder \/ InitInput

Next ==
  \/ MountGuarded
  \/ AnchorAttach
  \/ Mount
  \/ Unmount
  \/ ScatterDone
  \/ ScrambleStart
  \/ FadeDone
  \/ EmberStart
  \/ Frame
  \/ IntervalTick
  \/ RevealTimeout
  \/ DissolveTimeout
  \/ CompleteTimeout
  \/ ParticleDone
  \/ Tick
  \/ Attach
  \/ ScatterEffect
  \/ ScatterCleanup
  \/ ScrambleEffect
  \/ BlankCall
  \/ ScrambleCall
  \/ ScrambleInterval
  \/ ScrambleReveal
  \/ TimelineComplete
  \/ ScrambleCleanup
  \/ HookTick
  \/ GetRevealOrder
  \/ HandleChange
  \/ HandleKeyDown

Spec == Init /\ [][Next]_vars

(* ------------------------------------------------------------------ *)
(* Properties.                                                         *)
(* ------------------------------------------------------------------ *)
DissolvedCount == Cardinality({ k \in DOMAIN chars : chars[k].dissolved })
CompletionScheduled == \E t \in pendingTimeouts : t.cb = "complete"

\* C1: onComplete is invoked at most once per run, and the completion is
\* neither scheduled nor invoked before the number of dissolved units has
\* reached the number of non-blank units of both phrases.
C1_CompletionOnce ==
  /\ onCompleteCalls <= 1
  /\ CompletionScheduled => onCompleteCalls = 0
  /\ (CompletionScheduled \/ onCompleteCalls > 0)
       => DissolvedCount >= Cardinality(NonBlank)
C1_Witness == active /\ onCompleteCalls = 1 /\ DissolvedCount = N1 + N2

\* C2: once the cleanup has run, no timeout, interval or frame request is
\* pending and both text containers are empty (no span, no particle).
C2_TeardownClean ==
  (mode = "gate" /\ ~active) =>
    /\ pendingTimeouts = {}
    /\ pendingIntervals = {}
    /\ pendingFrames = {}
    /\ container1 = << >>
    /\ container2 = << >>
    /\ particles = {}
\* The cleanup ran in EmitterActive with a frame request and a dissolve
\* timeout pending and particles in a container.
C2_Witness ==
  /\ ~active /\ runs > 0
  /\ animationFrameId # 0 /\ processedCount < Len(chars)
  /\ \E k \in DOMAIN chars : chars[k].processed /\ ~chars[k].dissolved
  /\ \E k \in DOMAIN chars : chars[k].dissolved

\* C3: after mount, unmount, mount each container holds exactly the spans of
\* the current run, one per character in index order, and every pending
\* timer, interval and frame request belongs to the current run.
C3_RemountOneDom ==
  active =>
    /\ container1 = [i \in 1..N1 |-> << runs, i >>]
    /\ container2 = [i \in 1..N2 |-> << runs, N1 + i >>]
    /\ \A t \in pendingTimeouts \cup pendingIntervals \cup pendingFrames :
         t.run = runs
C3_Witness ==
  active /\ runs = 2 /\ Len(container1) = Len(text1) /\ Len(container2) = Len(text2)

\* C4: an effect run of useScatterText or useScrambleText on an enabled hook
\* with an attached container, a strict double invoke included, leaves one
\* span per character in the container and the animation running.
C4_DoubleInvoke ==
  (mode = "hook" /\ hLast = "effect" /\ config.enabled /\ containerRef) =>
    /\ Len(hContainer) = Len(config.text)
    /\ hLive

\* C5: character creation yields one unit per character of the phrase in
\* index order; a unit made from a space displays U+00A0, and the final
\* glyph of any other unit is its character.
Glyph(c) == IF c = " " THEN "nbsp" ELSE c
C5_CharacterFactory ==
  /\ (mode = "gate" /\ runs > 0) =>
       /\ Len(chars) = Len(text1) + Len(text2)
       /\ Len(finalChars2) = Len(text2)
       /\ \A i \in 1..Len(text1) : chars[i].text = Glyph(text1[i])
       /\ \A i \in 1..Len(text2) :
            /\ finalChars2[i] = Glyph(text2[i])
            /\ text2[i] = " " => chars[Len(text1) + i].text = "nbsp"
       /\ active => /\ container1 = [i \in 1..Len(text1) |-> << runs, i >>]
                    /\ container2 =
                         [i \in 1..Len(text2) |-> << runs, Len(text1) + i >>]
  /\ (mode = "hook" /\ hasInitialized) =>
       /\ Len(spans) = Len(config.text)
       /\ \A i \in 1..Len(config.text) :
            /\ config.text[i] = " " => spans[i] = "nbsp"
            /\ hookKind = "scatter" => spans[i] = Glyph(config.text[i])
            /\ hookKind = "scramble" => finalChars[i] = Glyph(config.text[i])
       /\ hLive => hContainer = [i \in 1..Len(config.text) |-> << hEffects, i - 1 >>]
\* A phrase with a blank has been scrambled and revealed.
C5_Witness ==
  /\ mode = "gate" /\ active /\ text2 = << "o", " " >>
  /\ chars[Len(text1) + 1].text = "o" /\ timeline = << >>

C7_DissolveIdempotent ==
  (mode = "gate" /\ active) =>
    \A k \in Units :
      /\ spawned[k] \in {0, PARTICLES_PER_CHAR}
      /\ spawned[k] > 0 =>
           /\ DissolvedAfter(k) = dissolvedChars
           /\ ParticlesAfterDissolve(k) = particles
           /\ SpawnedAfterDissolve(k) = spawned
           /\ CharsAfterDissolve(k) = chars
           /\ ~CompletesOnDissolve(k)
C7_Witness ==
  active /\ \E k \in Units : spawned[k] = PARTICLES_PER_CHAR /\ chars[k].dissolved

\* C8: getRevealOrder(n, 'center') starts at floor(n/2) and lists the indices
\* by growing distance from it, the upper index before the lower one of the
\* same distance; for n = 11 it begins 5, 6, 4, 7, 3.
C8_CenterOrder ==
  (mode = "order" /\ oDone /\ oDirection = "center") =>
    LET mid == oLength \div 2
    IN /\ Len(oResult) = oLength
       /\ oLength > 0 => oResult[1] = mid
       /\ \A p, q \in 1..Len(oResult) :
            p < q => \/ Abs(oResult[p] - mid) < Abs(oResult[q] - mid)
                     \/ /\ Abs(oResult[p] - mid) = Abs(oResult[q] - mid)
                        /\ oResult[p] > oResult[q]
       /\ oLength = 11 => SubSeq(oResult, 1, 5) = << 5, 6, 4, 7, 3 >>
C8_Witness ==
  mode = "order" /\ oDone /\ oDirection = "center" /\ oLength = 11

\* C9: with reveal order 'right' and a positive stagger the units of
\* useScrambleText lock to their final glyph in descending index order, each
\* in a step of its own.
C9_RightLocksDescending ==
  (mode = "hook" /\ hookKind = "scramble" /\ config.revealDirection = "right"
     /\ config.stagger > 0) =>
    /\ \A p, q \in 1..Len(hLocked) : p < q => hLocked[p] > hLocked[q]
    /\ \A p \in 1..Len(hLocked) :
         spans[hLocked[p] + 1] = config.text[hLocked[p] + 1]
C9_Witness ==
  /\ mode = "hook" /\ hookKind = "scramble" /\ config.revealDirection = "right"
  /\ config.text = << "h", "i" >> /\ hLocked = << 1, 0 >>

\* C10: when the emitter has swept from left of the first unit to right of
\* the last without ever moving left, every non-blank unit is processed.
SweptPast ==
  /\ emberX # << >>
  /\ sweep
  /\ \A k \in Units : emberX[1] >= CharCenterX(k) + GLOW_RADIUS
C10_SweepProcessesAll ==
  (mode = "gate" /\ runs > 0 /\ SweptPast) =>
    \A k \in NonBlank : chars[k].processed

\* C11: an effect run of useIntroGateAnimation that finds the panel, a text
\* container, the emitter container or the lead ember missing does no work:
\* no span, no timer, interval, timeline or frame request, no change of the
\* surface, and the controller stays Idle.
C11_MountGuard ==
  (mode = "gate" /\ anchors # AllAnchors) =>
    /\ ~active /\ runs = 0 /\ Phase = "Idle"
    /\ chars = << >> /\ container1 = << >> /\ container2 = << >>
    /\ particles = {}
    /\ pendingTimeouts = {} /\ pendingIntervals = {} /\ pendingFrames = {}
    /\ timeouts = {} /\ intervals = {} /\ animationFrameId = 0
    /\ timeline = << >>
    /\ ~panelRevealed /\ ~emberRunning
C11_Witness == mode = "gate" /\ guarded /\ "ember" \notin anchors

\* C12: within a run a unit's processed and dissolved flags only go from
\* false to true, each once; a unit is dissolved only after it was marked
\* processed, by the timeout that claim scheduled, DISSOLVE_DELAY later and
\* never in the step of the claim.
C12_State ==
  (mode = "gate" /\ runs > 0) =>
    /\ processedCount = Cardinality({ k \in Units : chars[k].processed })
    /\ \A k \in Units :
         /\ chars[k].dissolved => chars[k].processed
         /\ spawned[k] <= PARTICLES_PER_CHAR
         /\ \A t \in pendingTimeouts :
              (t.cb = "dissolve" /\ t.unit = k /\ t.run = runs)
                => chars[k].processed /\ ~chars[k].dissolved
C12_Step ==
  (mode = "gate" /\ runs' = runs /\ runs > 0) =>
    \A k \in Units :
      /\ chars[k].processed => chars'[k].processed
      /\ chars[k].dissolved => chars'[k].dissolved
      /\ (~chars[k].processed /\ chars'[k].processed) =>
           /\ ~chars'[k].dissolved
           /\ \E t \in pendingTimeouts' :
                t.cb = "dissolve" /\ t.unit = k /\ t.in = DISSOLVE_DELAY
      /\ (~chars[k].dissolved /\ chars'[k].dissolved) =>
           /\ chars[k].processed
           /\ \E t \in pendingTimeouts :
                t.cb = "dissolve" /\ t.unit = k /\ t.in = 0
C12_FlagsMonotonic == []C12_State /\ [][C12_Step]_vars
C12_Witness ==
  /\ active
  /\ \E k \in Units : chars[k].dissolved
  /\ \E k \in Units : chars[k].processed /\ ~chars[k].dissolved

\* C13: the polling loop ends itself: the poll that claims the last
\* remaining unit requests no frame, and from then on no frame request of
\* the run is pending; until then the loop keeps exactly one request pending.
C13_LoopTerminates ==
  (mode = "gate" /\ active /\ emberX # << >>) =>
    LET mine == { f \in pendingFrames : f.run = runs }
    IN IF processedCount >= Len(chars)
       THEN mine = {}
       ELSE mine = { [id |-> animationFrameId, run |-> runs] }
C13_Witness ==
  /\ mode = "gate" /\ active /\ emberX # << >>
  /\ processedCount = Len(chars) /\ animationFrameId # 0

\* C14: a run that is not unmounted reaches Complete for any emitter motion
\* sweeping from left of the first unit to right of the last: once such a
\* sweep has passed the last unit and every timeout and particle tween of
\* the run has run out, onComplete has been invoked.
C14_SweepEndsComplete ==
  (mode = "gate" /\ active /\ timeline = << >> /\ SweptPast
     /\ pendingTimeouts = {} /\ particles = {}) =>
    onCompleteCalls > 0

\* C15: after the cleanup every change the run made to the surface is
\* undone: no unit is hot, the text containers are empty, the panel does not
\* carry the revealed marker and the embers are not left running.
C15_SurfaceReverted ==
  (mode = "gate" /\ ~active) =>
    /\ \A k \in DOMAIN chars : ~chars[k].hot
    /\ container1 = << >> /\ container2 = << >>
    /\ ~panelRevealed
    /\ ~emberRunning

\* C16: the phases of a mount occur in the order Scattering,
\* PausedAfterScatter, Scrambling, PausedAfterScramble, EmitterActive,
\* Complete, none skipped or repeated, and startScramble does not run before
\* SCATTER_DELAY + SCATTER_DURATION + (N-1)*SCATTER_STAGGER +
\* PAUSE_AFTER_SCATTER has elapsed since the mount.
PhaseRank(p) ==
  CASE p = "Idle" -> 0
    [] p = "Scattering" -> 1
    [] p = "PausedAfterScatter" -> 2
    [] p = "Scrambling" -> 3
    [] p = "PausedAfterScramble" -> 4
    [] p = "EmitterActive" -> 5
    [] p = "Complete" -> 6
ScrambleStarted == \E k \in Units2 : << "reveal", k >> \in timeouts
C16_State ==
  (mode = "gate" /\ active) =>
    /\ ScrambleStarted =>
         now >= SCATTER_DELAY + SCATTER_DURATION
                  + (Len(text1) - 1) * SCATTER_STAGGER + PAUSE_AFTER_SCATTER
    /\ ScrambleStarted => PhaseRank(Phase) >= 3
    /\ emberX # << >> => PhaseRank(Phase) >= 5
C16_Step ==
  (mode = "gate" /\ Phase' # Phase) =>
    \/ Phase' = "Idle"
    \/ PhaseRank(Phase') = PhaseRank(Phase) + 1
C16_PhaseOrder == []C16_State /\ [][C16_Step]_vars
C16_Witness ==
  mode = "gate" /\ active /\ Phase = "Complete" /\ ScrambleStarted

\* C17: the emitter is activated only after every non-blank unit of the
\* second phrase has locked to its final glyph and lost its scramble
\* interval, and at least PAUSE_AFTER_SCRAMBLE after the last lock; no unit
\* is claimed or dissolved while a unit is still scrambling.
Scrambling(k) ==
  \/ \E i \in pendingIntervals : i.run = runs /\ i.unit = k
  \/ \E t \in pendingTimeouts : t.run = runs /\ t.cb = "reveal" /\ t.unit = k
C17_EmitterAfterLocks ==
  (mode = "gate" /\ active) =>
    /\ (timeline = << >> \/ emberX # << >>
          \/ \E k \in Units : chars[k].processed \/ chars[k].dissolved) =>
         /\ \A k \in Units2 : ~Scrambling(k)
         /\ \A k \in Units2 : ~IsBlank(k) => chars[k].text = text2[k - Len(text1)]
         /\ intervals = {}
    /\ (timeline # << >> /\ ScrambleStarted) =>
         \A t \in pendingTimeouts :
           (t.run = runs /\ t.cb = "reveal") =>
             timeline[Len(timeline)].in - t.in >= PAUSE_AFTER_SCRAMBLE
C17_Witness ==
  /\ mode = "gate" /\ active /\ emberX # << >>
  /\ \E k \in Units2 : ~IsBlank(k) /\ chars[k].processed

\* C18: unlocked starts false and becomes true only by an Enter keydown
\* while value.trim().toLowerCase() equals the target; without one it stays
\* false and the main scene is never shown.
C18_State ==
  mode = "input" =>
    /\ unlocked => (lastKey = "Enter" /\ ToLowerCase(Trim(value)) = TARGET)
    /\ Scene = "MainScene" <=> unlocked
C18_Step ==
  (mode = "input" /\ ~unlocked /\ unlocked') =>
    /\ lastKey' = "Enter"
    /\ value' = value
    /\ ToLowerCase(Trim(value)) = TARGET
C18_UnlockContract == []C18_State /\ [][C18_Step]_vars
C18_Witness ==
  /\ mode = "input" /\ unlocked
  /\ value = << " ", "S", "o", "m", "e", " ", "D", "e", "s", "t", "r", "o", "y", "s", " " >>

\* C19: in useScrambleText no unit starts scrambling (no interval is
\* created, no unit is locked) before the configured delay has elapsed
\* since the effect initialized.
C19_DelayRespected ==
  (mode = "hook" /\ hookKind = "scramble" /\ hLive
     /\ (hIntervals # {} \/ hTimeouts # {} \/ hLocked # << >>)) =>
    hNow >= config.delay

\* C20: an effect run of useScatterText with the container not attached
\* does nothing and leaves hasInitialized unset, and an effect run of an
\* enabled hook with the container attached leaves the hook initialized.
C20_UnattachedNoOp ==
  (mode = "hook" /\ hookKind = "scatter") =>
    /\ ~containerRef =>
         /\ ~hasInitialized /\ ~hLive
         /\ hContainer = << >> /\ charsRef = << >> /\ hTimeline = << >>
    /\ (containerRef /\ config.enabled /\ hLast = "effect") => hasInitialized
\* The first effect run found no container, the second one initialized.
C20_Witness ==
  /\ mode = "hook" /\ hookKind = "scatter"
  /\ hEffects = 2 /\ hLive /\ hContainer # << >> /\ hContainer[1] = << 2, 0 >>

\* C21: a proximity poll marks processed exactly the units not processed
\* before whose centre is at distance strictly below GLOW_RADIUS from the
\* emitter centre it reads: all of them in that one poll, and none at
\* distance GLOW_RADIUS or more.
NewlyProcessed == { k \in Units : ~chars[k].processed /\ chars'[k].processed }
C21_Step ==
  (mode = "gate" /\ runs' = runs /\ runs > 0 /\ emberX' # << >>
     /\ (emberX' # emberX \/ NewlyProcessed # {})) =>
    NewlyProcessed =
      { k \in Units : /\ ~chars[k].processed
                      /\ emberX'[1] - CharCenterX(k) < 30
                      /\ CharCenterX(k) - emberX'[1] < 30 }
C21_ClaimedExactly == [][C21_Step]_vars
\* Two units were claimed by one poll that read a centre exactly GLOW_RADIUS
\* away from a third, unprocessed one.
C21_Witness ==
  /\ mode = "gate" /\ active /\ emberX # << >>
  /\ \E j, k, m \in Units :
       /\ j # k /\ PhraseOf(j) = PhraseOf(k)
       /\ \E t, u \in pendingTimeouts :
            /\ t.cb = "dissolve" /\ t.unit = j /\ t.in = DISSOLVE_DELAY
            /\ u.cb = "dissolve" /\ u.unit = k /\ u.in = DISSOLVE_DELAY
       /\ ~chars[m].processed
       /\ Abs(emberX[1] - CharCenterX(m)) = GLOW_RADIUS

\* C22: in startScramble and in useScrambleText a unit has at most one
\* scramble interval at a time; its reveal timeout cancels the interval and
\* sets the final glyph once, and from then on the unit shows its final
\* glyph and has no interval.
GateLocked(k) ==
  /\ << "reveal", k >> \in timeouts
  /\ ~ \E t \in pendingTimeouts : t.run = runs /\ t.cb = "reveal" /\ t.unit = k
C22_OneIntervalLockOnce ==
  /\ (mode = "gate" /\ active) =>
       \A k \in Units2 :
         /\ Cardinality({ i \in pendingIntervals : i.run = runs /\ i.unit = k }) <= 1
         /\ Cardinality({ t \in pendingTimeouts :
                            t.run = runs /\ t.cb = "reveal" /\ t.unit = k }) <= 1
         /\ GateLocked(k) =>
              /\ chars[k].text = finalChars2[k - Len(text1)]
              /\ ~ \E i \in pendingIntervals : i.run = runs /\ i.unit = k
              /\ << "interval", k >> \notin intervals
  /\ (mode = "hook" /\ hookKind = "scramble" /\ hLive) =>
       /\ \A u \in 0..(Len(config.text) - 1) :
            Cardinality({ i \in hPendingIntervals : i.unit = u }) <= 1
       /\ \A p \in 1..Len(hLocked) :
            /\ spans[hLocked[p] + 1] = finalChars[hLocked[p] + 1]
            /\ ~ \E i \in hPendingIntervals : i.unit = hLocked[p]
            /\ \A q \in 1..Len(hLocked) : hLocked[p] = hLocked[q] => p = q
\* One unit of the second phrase is locked while another still scrambles.
C22_Witness ==
  /\ mode = "gate" /\ active
  /\ \E j, k \in Units2 :
       /\ GateLocked(j)
       /\ \E i \in pendingIntervals : i.run = runs /\ i.unit = k

\* C23: when onComplete is invoked every particle of the run has finished
\* and removed itself: a particle lives at most PARTICLE_DURATION_MAX and
\* the completion timeout runs PARTICLE_DURATION_MAX + 1200 ms from the last
\* dissolve.
C23_CompletionOutlastsParticles ==
  (mode = "gate" /\ active) =>
    /\ onCompleteCalls > 0 =>
         /\ particles = {}
         /\ \A k \in Units : spawned[k] = PARTICLES_PER_CHAR
    /\ \A t \in pendingTimeouts :
         (t.run = runs /\ t.cb = "complete") =>
           \A p \in particles : t.in - p.in >= 1200
\* The completion timeout is running while particles are still alive.
C23_Witness ==
  /\ mode = "gate" /\ active /\ particles # {}
  /\ \E t \in pendingTimeouts : t.run = runs /\ t.cb = "complete"

\* C24: a mount after a run that completed or was torn down starts with no
\* state of that run: no unit processed or dissolved, fresh units only,
\* nothing pending; and its completion takes all of its own units dissolved.
JustMounted == active /\ now = 0 /\ Len(timeline) = 4
C24_FreshMount ==
  (mode = "gate" /\ active) =>
    /\ totalChars = Len(chars)
    /\ allCharsRef = [k \in Units |-> << runs, k >>]
    /\ dissolvedChars = { << runs, k >> : k \in { u \in Units : chars[u].dissolved } }
    /\ JustMounted =>
         /\ processedCount = 0 /\ dissolvedChars = {} /\ onCompleteCalls = 0
         /\ \A k \in Units :
              /\ ~chars[k].processed /\ ~chars[k].dissolved /\ ~chars[k].hot
              /\ spawned[k] = 0
         /\ pendingTimeouts = {} /\ pendingIntervals = {} /\ pendingFrames = {}
         /\ timeouts = {} /\ intervals = {} /\ animationFrameId = 0
         /\ particles = {} /\ emberX = << >>
    /\ (CompletionScheduled \/ onCompleteCalls > 0) =>
         \A k \in Units : chars[k].dissolved /\ spawned[k] = PARTICLES_PER_CHAR
\* The second run has completed.
C24_Witness == mode = "gate" /\ active /\ runs = 2 /\ onCompleteCalls = 1

\* C25: in useScrambleText, onComplete is invoked only when every non-blank
\* unit has been locked to its final glyph and no scramble interval is still
\* active, and at most once per initialization.
C25_CompleteAfterLocks ==
  (mode = "hook" /\ hookKind = "scramble" /\ hLive) =>
    /\ hOnComplete <= 1
    /\ hOnComplete > 0 =>
         /\ hPendingIntervals = {}
         /\ \A i \in 1..Len(spans) :
              finalChars[i] # NBSP =>
                /\ spans[i] = finalChars[i]
                /\ \E j \in 1..Len(hLocked) : hLocked[j] = i - 1

\* C26: for every length and every policy (left, right, random, center or
\* undefined) getRevealOrder returns a permutation of 0..n-1: n entries, each
\* index exactly once; so every unit of useScrambleText has one reveal slot.
IsPermutation(seq, n) ==
  /\ Len(seq) = n
  /\ \A v \in 0..(n - 1) : Cardinality({ i \in 1..Len(seq) : seq[i] = v }) = 1
C26_RevealOrderPermutation ==
  /\ (mode = "order" /\ oDone) => IsPermutation(oResult, oLength)
  /\ (mode = "hook" /\ hookKind = "scramble" /\ hLive) =>
       IsPermutation(revealOrder, Len(spans))
\* A center order of the longest length, and one of an even length.
C26_Witness ==
  /\ mode = "order" /\ oDone /\ oDirection \in {"center", "undefined"}
  /\ oLength >= MaxLength - 1 /\ oResult # << >>

\* C27: after the cleanup of a run, that run never invokes the completion
\* callback and never changes a unit's state again, whatever was pending at
\* the unmount, the completion timeout included: no callback of the run is
\* left to run, and no step taken while unmounted touches the units or the
\* count of completions.
C27_State ==
  (mode = "gate" /\ ~active) =>
    /\ timeline = << >>
    /\ \A t \in pendingTimeouts : t.run # runs
    /\ \A i \in pendingIntervals : i.run # runs
    /\ \A f \in pendingFrames : f.run # runs
C27_Step ==
  (mode = "gate" /\ ~active /\ ~active') =>
    UNCHANGED << chars, processedCount, dissolvedChars, spawned, particles,
                 container1, container2, onCompleteCalls >>
C27_DeadAfterCleanup == []C27_State /\ [][C27_Step]_vars
\* The cleanup ran during the completion delay: every unit was dissolved, the
\* completion timeout had been created, and onComplete was not invoked.
C27_Witness ==
  /\ mode = "gate" /\ ~active /\ runs > 0
  /\ << "complete", 0 >> \in timeouts
  /\ \A k \in DOMAIN chars : chars[k].dissolved
  /\ onCompleteCalls = 0

\* C28: in every state of a run processedCount is the number of units whose
\* processed flag is set, the number of dissolved units (by flag and in the
\* dissolved set) is at most processedCount, and processedCount is at most
\* the total number of units.
C28_CountBounds ==
  (mode = "gate" /\ active) =>
    LET processed == { k \in Units : chars[k].processed }
    IN /\ processedCount = Cardinality(processed)
       /\ DissolvedCount <= processedCount
       /\ Cardinality(dissolvedChars) <= processedCount
       /\ dissolvedChars \subseteq { << runs, k >> : k \in processed }
       /\ processedCount <= totalChars
       /\ processedCount <= Len(allCharsRef)
\* Some units are processed and dissolved, some processed only, some neither.
C28_Witness ==
  /\ mode = "gate" /\ active
  /\ processedCount >= 2 /\ processedCount < totalChars
  /\ DissolvedCount > 0 /\ DissolvedCount < processedCount

\* C29: during a run at most one animation-frame request is pending and
\* animationFrameId names it (the latest one requested), so the one
\* cancelAnimationFrame of the cleanup leaves no frame request pending.
C29_OneFramePending ==
  /\ (mode = "gate" /\ active) =>
       /\ Cardinality(pendingFrames) <= 1
       /\ \A f \in pendingFrames : f.id = animationFrameId /\ f.run = runs
  /\ (mode = "gate" /\ ~active) => pendingFrames = {}
\* The cleanup ran while the loop was going, after two requests or more.
C29_Witness ==
  /\ mode = "gate" /\ ~active /\ runs > 0
  /\ emberX # << >> /\ animationFrameId = 2
  /\ processedCount < Len(chars)

\* C30: Complete is terminal and quiescent: once onComplete of a run has been
\* invoked, no timeout, interval or frame request of that run is pending, the
\* timeline has ended, and nothing changes in that mount until the unmount.
C30_State ==
  (mode = "gate" /\ active /\ onCompleteCalls > 0) =>
    /\ \A t \in pendingTimeouts : t.run # runs
    /\ \A i \in pendingIntervals : i.run # runs
    /\ \A f \in pendingFrames : f.run # runs
    /\ timeline = << >>
    /\ particles = {}
C30_Step ==
  (mode = "gate" /\ active /\ onCompleteCalls > 0 /\ active') =>
    UNCHANGED gateVars
C30_CompleteTerminal == []C30_State /\ [][C30_Step]_vars
\* The run completed and was then unmounted.
C30_Witness ==
  /\ mode = "gate" /\ ~active /\ runs > 0 /\ onCompleteCalls = 1

====
